---- MODULE Spec2Model ----
(***************************************************************************)
(* Bid placement, bid rate limiting, winner resolution and the admin's     *)
(* operations on listings of the auction API (auctions/views/item.py,      *)
(* auctions/views/utils.py, auctions/views/admin.py, auctions/models.py    *)
(* and auctions/management/commands/update_auction_winners.py).            *)
(*                                                                         *)
(* The relational store (PostgreSQL, READ COMMITTED) is the shared state:  *)
(* every query and every commit is one atomic step, and everything a       *)
(* request keeps between two queries (its Item instance, the highest bid   *)
(* it fetched, its BidAttempt instance) is local to the request.           *)
(*                                                                         *)
(* Money is counted in units of 0.50, so 1.00 is 2 units; time in seconds. *)
(***************************************************************************)
EXTENDS Integers, Sequences, FiniteSets, Bags, TLC

VARIABLES
    now,        \* timezone.now()
    items,      \* Item rows, by primary key
    bids,       \* Bid rows, in the order their inserts committed
    attempts,   \* BidAttempt rows, a bag of [user, ip_address, timestamp, success]
    req,        \* place_bid requests in flight, one per worker
    resolver,   \* the update_auction_winners command
    marker,     \* the admin's mark_winners request
    editor,     \* the admin's update of a listing (ItemViewSet.update)
    login_attempts, \* LoginAttempt rows, a bag of [email, ip_address, timestamp, success]
    login,      \* the last login_view request and its response
    cleaner,    \* the last run of the cleanup_database command
    hist,       \* history: what each committed bid had read, parallel to bids
    runs        \* history: the resolver runs that followed one another undisturbed

vars == <<now, items, bids, attempts, req, resolver, marker, editor,
          login_attempts, login, cleaner, hist, runs>>

auth == <<login_attempts, login, cleaner>>

admin == <<marker, editor>>

store == <<items, bids, attempts>>

----------------------------------------------------------------------------
\* Bounds of the model

MaxAmount == 7
MaxTime == 3
MaxNewAttempts == 2
\* the updates of listings the admin sends
MaxEdits == 2
\* the LoginAttempt rows written while the model runs
MaxNewLogins == 3
\* the runs of cleanup_database
MaxCleanups == 1

\* Program constants

MAX_LOGIN_ATTEMPTS == 5
LOGIN_ATTEMPT_PERIOD == 900
MAX_BID_ATTEMPTS == 10
BID_ATTEMPT_PERIOD == 60
MinIncrement == 2
JumpFactor == 2

Users == {"u1", "u2"}
NoUser == "none"
IPs == {"ip1", "ip2"}
Workers == {1, 2}
UnknownId == 0

\* request.data["amount"]: a decimal string (ok, with its value) or text
\* that float() refuses
BadAmount == [ok |-> FALSE, val |-> 0]
\* the amounts bidders try: nothing, 0.50, 1.00, 1.50, 3.00 and the largest
Amounts == {0, 1, 2, 3, 6, MaxAmount}

NoItem == [starting_price |-> 0, current_price |-> 0, end_date |-> 0,
           is_active |-> FALSE, winner |-> NoUser]
NoBid == [exists |-> FALSE, amount |-> 0, user |-> NoUser]
NoAttempt == [exists |-> FALSE, timestamp |-> 0]

IdleReq == [pc |-> "idle", user |-> NoUser, ip |-> "ip1", raw |-> BadAmount,
            amount |-> 0, pk |-> UnknownId, item |-> NoItem,
            previous_highest_bid |-> NoBid, bid_attempt |-> NoAttempt,
            response |-> "none", user_attempts |-> 0, notification |-> "none"]

IdleMarker == [pc |-> "idle", item_ids |-> <<>>, item |-> NoItem, winner |-> NoUser]
IdleEditor == [pc |-> "idle", pk |-> UnknownId, instance |-> NoItem,
               field |-> "none", is_active |-> FALSE, end_date |-> 0, edits |-> 0]

Emails == {"a@x"}
NoLogin == [email |-> "none", ip |-> "ip1", captcha |-> "none",
            credentials |-> "none", response |-> "none", failed |-> 0]
NoCleanup == [days |-> 0, dry_run |-> FALSE, runs |-> 0]

----------------------------------------------------------------------------
\* Queries

\* Bid.objects.filter(item=item): indices of the item's rows
BidsOf(pk) == {i \in DOMAIN bids : bids[i].item = pk}

\* Bid.objects.filter(item=item).order_by("-amount").first()
HighestBid(pk) ==
    IF BidsOf(pk) = {} THEN NoBid
    ELSE LET i == CHOOSE i \in BidsOf(pk) :
                     \A j \in BidsOf(pk) : bids[j].amount <= bids[i].amount
         IN [exists |-> TRUE, amount |-> bids[i].amount, user |-> bids[i].user]

\* BidAttempt.objects.filter(**query).count()
CountAttempts(rows) ==
    BagCardinality([r \in rows |-> attempts[r]])

\* the attempts of a bidder from an address, of any age
AttemptsOfKey_any_time(user, ip) ==
    {r \in DOMAIN attempts : r.ip_address = ip /\ r.user = user}

AttemptsOfKey(user, ip) ==
    {r \in DOMAIN attempts : /\ r.ip_address = ip
                             /\ r.timestamp >= now - BID_ATTEMPT_PERIOD
                             /\ r.user = user}

check_bid_rate_limit(user, ip) ==
    CountAttempts(AttemptsOfKey(user, ip)) >= MAX_BID_ATTEMPTS

\* history: the bidder's attempts of the trailing window, from any address
AttemptsOfUser(user) ==
    {r \in DOMAIN attempts : /\ r.timestamp >= now - BID_ATTEMPT_PERIOD
                             /\ r.user = user}

----------------------------------------------------------------------------
\* The rows the log holds when the model starts: the bidder u1 made
\* MAX_BID_ATTEMPTS - 1 attempts from ip2 one second ago
EarlierAttempt == [user |-> "u1", ip_address |-> "ip2", timestamp |-> 0,
                   success |-> FALSE]
EarlierAttempts == [r \in {EarlierAttempt} |-> MAX_BID_ATTEMPTS - 1]

\* the account a@x failed MAX_LOGIN_ATTEMPTS - 1 logins from ip1 one second ago
EarlierLogin == [email |-> "a@x", ip_address |-> "ip1", timestamp |-> 0,
                 success |-> FALSE]
EarlierLogins == [r \in {EarlierLogin} |-> MAX_LOGIN_ATTEMPTS - 1]

\* rows left from more than a month ago: what cleanup_database is there for
SecondsPerDay == 86400
DefaultDays == 30
OldTimestamp == 0 - (DefaultDays + 1) * SecondsPerDay
OldAttempts == SetToBag({[EarlierAttempt EXCEPT !.timestamp = OldTimestamp]})
OldLogins == SetToBag({[EarlierLogin EXCEPT !.timestamp = OldTimestamp]})

NewAttempts == {r \in DOMAIN attempts : r.timestamp > 0}

InFlight == {p \in Workers : req[p].pc \in {"get_item", "record"}}

\* a listing at its starting price of 0.50 that ends at second 2
Listing(active) ==
    [starting_price |-> 1, current_price |-> 1, end_date |-> 2,
     is_active |-> active, winner |-> NoUser]

\* a listing at 1.00 that ends at second 1 and gets no bid
QuietListing ==
    [starting_price |-> 2, current_price |-> 2, end_date |-> 1,
     is_active |-> TRUE, winner |-> NoUser]

InitWith(listings) ==
    /\ now = 1
    /\ items \in listings
    /\ bids = <<>>
    /\ attempts = EarlierAttempts
    /\ req = [p \in Workers |-> IdleReq]
    /\ resolver = [pc |-> "idle", ended_auctions |-> <<>>, winner |-> NoUser]
    /\ marker = IdleMarker
    /\ editor = IdleEditor
    /\ login_attempts = EarlierLogins
    /\ login = NoLogin
    /\ cleaner = NoCleanup
    /\ hist = <<>>
    /\ runs = [count |-> 0, clean |-> TRUE]

Init == InitWith({[pk \in {1} |-> Listing(active)] : active \in BOOLEAN})

InitResolve ==
    InitWith({[pk \in {1, 2} |-> IF pk = 1 THEN Listing(active) ELSE QuietListing] :
                    active \in BOOLEAN})

\* history: a step of anything but the resolver ends a sequence of resolver runs
Interrupt == runs' = [count |-> 0, clean |-> FALSE]

----------------------------------------------------------------------------
\* Item.save(): what it does to the instance before the row is written

\* Item.save() without the test on the winner
Item_save_keeps_winner(instance) ==
    IF instance.current_price = 0
    THEN [instance EXCEPT !.current_price = instance.starting_price]
    ELSE instance

Item_save(instance) ==
    LET priced == IF instance.current_price = 0
                  THEN [instance EXCEPT !.current_price = instance.starting_price]
                  ELSE instance
    IN  IF priced.winner # NoUser /\ priced.end_date > now
        THEN [priced EXCEPT !.winner = NoUser]
        ELSE priced

----------------------------------------------------------------------------
\* ItemViewSet.place_bid

Done(p, response) ==
    req' = [req EXCEPT ![p].pc = "done", ![p].response = response]

\* float(request.data.get("amount", 0)) and the test amount <= 0
AmountInvalid(raw) == ~raw.ok \/ raw.val <= 0

\* the rows of BidAttempt with a denied request logged like any other
DeniedAttempts_logged(user, ip) ==
    attempts (+) SetToBag({[user |-> user, ip_address |-> ip, timestamp |-> now,
                            success |-> FALSE]})

\* the rows of BidAttempt after the limiter denied a request: the handler
\* returns the 429 before BidAttempt.objects.create
DeniedAttempts(user, ip) == attempts

\* the rate limit and the amount, before any row is read or written
PlaceBidBegin(p, user, ip, raw, pk) ==
    /\ req[p].pc \in {"idle", "done"}
    /\ \/ check_bid_rate_limit(user, ip)
       \/ CountAttempts(NewAttempts) + Cardinality(InFlight) < MaxNewAttempts
    /\ LET r == [IdleReq EXCEPT !.user = user, !.ip = ip, !.raw = raw, !.pk = pk,
                                !.amount = IF raw.ok THEN raw.val ELSE 0,
                                !.user_attempts = CountAttempts(AttemptsOfUser(user))]
       IN  req' = [req EXCEPT ![p] =
                IF check_bid_rate_limit(user, ip)
                THEN [r EXCEPT !.pc = "done", !.response = "TooManyAttempts"]
                ELSE IF AmountInvalid(raw)
                THEN [r EXCEPT !.pc = "done", !.response = "InvalidAmount"]
                ELSE [r EXCEPT !.pc = "get_item"]]
    /\ attempts' = IF check_bid_rate_limit(user, ip) THEN DeniedAttempts(user, ip)
                   ELSE attempts
    /\ Interrupt
    /\ UNCHANGED <<now, items, bids, resolver, hist, admin, auth>>

\* Item.objects.select_related("category").get(pk=pk)
PlaceBidGetItem(p) ==
    /\ req[p].pc = "get_item"
    /\ IF req[p].pk \in DOMAIN items
       THEN req' = [req EXCEPT ![p].pc = "record", ![p].item = items[req[p].pk]]
       ELSE Done(p, "NotFound")
    /\ Interrupt
    /\ UNCHANGED <<now, items, bids, attempts, resolver, hist, admin, auth>>

AttemptRow(r, success) ==
    [user |-> r.user, ip_address |-> r.ip, timestamp |-> r.bid_attempt.timestamp,
     success |-> success]

\* BidAttempt.objects.create(user=user, ip_address=ip_address, success=False)
PlaceBidRecordAttempt(p) ==
    /\ req[p].pc = "record"
    /\ LET r == [req[p] EXCEPT !.bid_attempt = [exists |-> TRUE, timestamp |-> now]]
       IN  /\ attempts' = attempts (+) SetToBag({AttemptRow(r, FALSE)})
           /\ req' = [req EXCEPT ![p] = [r EXCEPT !.pc = "validate"]]
    /\ Interrupt
    /\ UNCHANGED <<now, items, bids, resolver, hist, admin, auth>>

\* not item.is_active or item.end_date < timezone.now()
NotAvailable(item) == ~item.is_active \/ item.end_date < now

\* the price rules with the current price itself let through
PriceRules_below_only(item, previous_highest_bid, amount) ==
    IF amount < item.current_price THEN "BelowCurrentPrice"
    ELSE IF amount < item.current_price + MinIncrement THEN "BelowMinimumIncrement"
    ELSE IF previous_highest_bid.exists
            /\ amount > previous_highest_bid.amount * JumpFactor
         THEN "ExceedsMaximumJump"
    ELSE "ok"

\* the price rules with the doubled highest bid itself refused
PriceRules_cap_exclusive(item, previous_highest_bid, amount) ==
    IF amount <= item.current_price THEN "BelowCurrentPrice"
    ELSE IF amount < item.current_price + MinIncrement THEN "BelowMinimumIncrement"
    ELSE IF previous_highest_bid.exists
            /\ amount >= previous_highest_bid.amount * JumpFactor
         THEN "ExceedsMaximumJump"
    ELSE "ok"

\* the price rules without the minimum increment
PriceRules_increment_unchecked(item, previous_highest_bid, amount) ==
    IF amount <= item.current_price THEN "BelowCurrentPrice"
    ELSE IF previous_highest_bid.exists
            /\ amount > previous_highest_bid.amount * JumpFactor
         THEN "ExceedsMaximumJump"
    ELSE "ok"

\* the price rules on the instance and the highest bid the request fetched
PriceRules(item, previous_highest_bid, amount) ==
    IF amount <= item.current_price THEN "BelowCurrentPrice"
    ELSE IF amount < item.current_price + MinIncrement THEN "BelowMinimumIncrement"
    ELSE IF previous_highest_bid.exists
            /\ amount > previous_highest_bid.amount * JumpFactor
         THEN "ExceedsMaximumJump"
    ELSE "ok"

\* the availability test, the query for the highest bid and the price rules
PlaceBidValidate(p) ==
    /\ req[p].pc = "validate"
    /\ LET r == req[p]
           highest == HighestBid(r.pk)
           verdict == PriceRules(r.item, highest, r.amount)
       IN  IF NotAvailable(r.item)
           THEN Done(p, "NotAvailable")
           ELSE IF verdict # "ok"
           THEN req' = [req EXCEPT ![p].pc = "done", ![p].response = verdict,
                                   ![p].previous_highest_bid = highest]
           ELSE req' = [req EXCEPT ![p].pc = "create",
                                   ![p].previous_highest_bid = highest]
    /\ Interrupt
    /\ UNCHANGED <<now, items, bids, attempts, resolver, hist, admin, auth>>

\* Bid.clean(), run by Bid.save() through full_clean(): the rows it reads
Bid_clean(pk, amount) ==
    LET highest_bid == HighestBid(pk)
    IN  ~(highest_bid.exists /\ amount > highest_bid.amount * JumpFactor)

\* Bid.objects.create(...) inside transaction.atomic(): full_clean() reads the
\* item's bids; a ValidationError leaves the block and is answered by the
\* handler's except clause
PlaceBidCreate(p) ==
    /\ req[p].pc = "create"
    /\ IF Bid_clean(req[p].pk, req[p].amount)
       THEN req' = [req EXCEPT ![p].pc = "commit"]
       ELSE Done(p, "Error")
    /\ Interrupt
    /\ UNCHANGED <<now, items, bids, attempts, resolver, hist, admin, auth>>

\* the columns item.save(update_fields=["current_price"]) writes
SavePrice(row, instance) == [row EXCEPT !.current_price = instance.current_price]

\* User.outbid_notifications_enabled: u1 keeps the default, u2 switched it off
outbid_notifications_enabled == [user \in Users |-> user = "u1"]

\* the outbid notification after the commit: none when there is no other
\* previous highest bidder or that bidder switched it off; otherwise
\* send_outbid_notification returns True (sent) or catches what rendering
\* or sending raised and returns False (failed)
Notifications(r) ==
    IF /\ r.previous_highest_bid.exists
       /\ r.previous_highest_bid.user # r.user
       /\ outbid_notifications_enabled[r.previous_highest_bid.user]
    THEN {"sent", "failed"}
    ELSE {"none"}

\* a response that depends on the outcome of the notification
CommitResponse_failure_propagates(notification) ==
    IF notification = "failed" THEN "Error" ELSE "Created"

\* Response(BidSerializer(bid).data, status=201), whatever the notification did
CommitResponse(notification) == "Created"

\* the transaction commits: the Bid row, the item's price, the attempt's flag;
\* then the notification and the response
PlaceBidCommit(p) ==
    /\ req[p].pc = "commit"
    /\ LET r == req[p]
           instance == Item_save([r.item EXCEPT !.current_price = r.amount])
       IN  /\ bids' = Append(bids, [item |-> r.pk, user |-> r.user, amount |-> r.amount])
           /\ items' = [items EXCEPT ![r.pk] = SavePrice(@, instance)]
           /\ attempts' = (attempts (-) SetToBag({AttemptRow(r, FALSE)}))
                             (+) SetToBag({AttemptRow(r, TRUE)})
           /\ hist' = Append(hist, [read_price |-> r.item.current_price,
                                    price_before |-> items[r.pk].current_price,
                                    worker |-> p])
    /\ \E notification \in Notifications(req[p]) :
            req' = [req EXCEPT ![p].pc = "done", ![p].notification = notification,
                               ![p].response = CommitResponse(notification)]
    /\ Interrupt
    /\ UNCHANGED <<now, resolver, admin, auth>>

\* the rows of Bid after an exception left the transaction.atomic() block:
\* the insert is rolled back
AbortedBids_insert_kept(r) ==
    Append(bids, [item |-> r.pk, user |-> r.user, amount |-> r.amount])

AbortedBids(r) == bids

\* item.save() or bid_attempt.save() raises after the insert (the database
\* fails or the request is cut off): the block rolls back and the handler's
\* except clause answers
PlaceBidAbort(p) ==
    /\ req[p].pc = "commit"
    /\ bids' = AbortedBids(req[p])
    /\ Done(p, "Error")
    /\ Interrupt
    /\ UNCHANGED <<now, items, attempts, resolver, hist, admin, auth>>

\* the steps of a request after its first
PlaceBidStep(p) ==
    \/ PlaceBidGetItem(p)
    \/ PlaceBidRecordAttempt(p)
    \/ PlaceBidValidate(p)
    \/ PlaceBidCreate(p)
    \/ PlaceBidCommit(p)

\* The requests the bidders send. Worker 1 serves u1 and worker 2 serves u2,
\* both from ip1; beside every amount on listing 1 there is one request with
\* an amount that does not parse and one for a listing that does not exist.
WorkerUser(p) == IF p = 1 THEN "u1" ELSE "u2"

BidRequests(p) ==
    {[user |-> WorkerUser(p), ip |-> "ip1", raw |-> [ok |-> TRUE, val |-> v], pk |-> 1] :
        v \in Amounts}
    \cup {[user |-> WorkerUser(p), ip |-> "ip1", raw |-> BadAmount, pk |-> 1],
          [user |-> WorkerUser(p), ip |-> "ip1", raw |-> [ok |-> TRUE, val |-> MaxAmount],
           pk |-> UnknownId]}

PlaceBid(p) ==
    \/ \E r \in BidRequests(p) : PlaceBidBegin(p, r.user, r.ip, r.raw, r.pk)
    \/ PlaceBidStep(p)

----------------------------------------------------------------------------
\* update_auction_winners: Command.handle

\* the filter without winner__isnull=True
EndedAuctions_any_winner ==
    {pk \in DOMAIN items : items[pk].end_date < now /\ items[pk].is_active}

\* Item.objects.filter(end_date__lt=now, winner__isnull=True, is_active=True)
EndedAuctions ==
    {pk \in DOMAIN items : /\ items[pk].end_date < now
                           /\ items[pk].winner = NoUser
                           /\ items[pk].is_active}

\* the rows of a queryset in Meta.ordering, newest (highest key) first
RECURSIVE Ordered(_)
Ordered(pks) ==
    IF pks = {} THEN <<>>
    ELSE LET top == CHOOSE pk \in pks : \A other \in pks : other <= pk
         IN  <<top>> \o Ordered(pks \ {top})

\* the queryset is evaluated when the loop starts: the instances are loaded
ResolverScan ==
    /\ resolver.pc = "idle"
    /\ LET order == Ordered(EndedAuctions)
       IN  resolver' = [pc |-> "loop", winner |-> NoUser,
                        ended_auctions |->
                            [i \in DOMAIN order |-> [pk |-> order[i], auction |-> items[order[i]]]]]
    /\ runs' = [runs EXCEPT !.clean = TRUE]
    /\ UNCHANGED <<now, items, bids, attempts, req, hist, admin, auth>>

\* auction.bids.exists() and auction.bids.order_by('-amount').first()
ResolverHighestBid ==
    /\ resolver.pc = "loop"
    /\ resolver.ended_auctions # <<>>
    /\ LET highest_bid == HighestBid(Head(resolver.ended_auctions).pk)
       IN  IF highest_bid.exists
           THEN resolver' = [resolver EXCEPT !.pc = "save", !.winner = highest_bid.user]
           ELSE resolver' = [resolver EXCEPT !.ended_auctions = Tail(@)]
    /\ UNCHANGED <<now, items, bids, attempts, req, hist, runs, admin, auth>>

\* auction.winner = highest_bid.user; auction.save() writes every column of
\* the instance; the message then reads auction.winner.email, which raises
\* and ends the command when the winner is None
ResolverSave ==
    /\ resolver.pc = "save"
    /\ LET head == Head(resolver.ended_auctions)
           auction == Item_save([head.auction EXCEPT !.winner = resolver.winner])
       IN  /\ items' = [items EXCEPT ![head.pk] = auction]
           /\ resolver' = [resolver EXCEPT
                    !.pc = "loop", !.winner = NoUser,
                    !.ended_auctions = IF auction.winner = NoUser THEN <<>> ELSE Tail(@)]
    /\ UNCHANGED <<now, bids, attempts, req, hist, runs, admin, auth>>

\* the loop is over and the command returns
ResolverReturn ==
    /\ resolver.pc = "loop"
    /\ resolver.ended_auctions = <<>>
    /\ resolver' = [resolver EXCEPT !.pc = "idle"]
    /\ runs' = IF runs.clean
               THEN [runs EXCEPT !.count = IF @ < 2 THEN @ + 1 ELSE @]
               ELSE [runs EXCEPT !.count = 0]
    /\ UNCHANGED <<now, items, bids, attempts, req, hist, admin, auth>>

Resolver ==
    \/ ResolverScan
    \/ ResolverHighestBid
    \/ ResolverSave
    \/ ResolverReturn

\* auction.save() raises (the database fails): nothing catches it inside the
\* loop, the command ends with the rest of the queryset unprocessed
ResolverSaveFails ==
    /\ resolver.pc = "save"
    /\ resolver' = [pc |-> "idle", ended_auctions |-> <<>>, winner |-> NoUser]
    /\ runs' = [count |-> 0, clean |-> FALSE]
    /\ UNCHANGED <<now, items, bids, attempts, req, hist, admin, auth>>

----------------------------------------------------------------------------
\* mark_winners (views/admin.py)

\* request.data["item_ids"], not empty
MarkBegin(item_ids) ==
    /\ marker.pc = "idle"
    /\ marker' = [IdleMarker EXCEPT !.pc = "loop", !.item_ids = item_ids]
    /\ Interrupt
    /\ UNCHANGED <<now, items, bids, attempts, req, resolver, editor, hist, auth>>

\* Item.objects.get(id=item_id) and the test item.end_date > timezone.now()
MarkGet ==
    /\ marker.pc = "loop"
    /\ marker.item_ids # <<>>
    /\ LET item_id == Head(marker.item_ids)
       IN  IF item_id \notin DOMAIN items \/ items[item_id].end_date > now
           THEN marker' = [marker EXCEPT !.item_ids = Tail(@)]
           ELSE marker' = [marker EXCEPT !.pc = "bids", !.item = items[item_id]]
    /\ Interrupt
    /\ UNCHANGED <<now, items, bids, attempts, req, resolver, editor, hist, auth>>

\* item.bids.exists() and item.bids.first(), in Meta.ordering (-amount)
MarkHighestBid ==
    /\ marker.pc = "bids"
    /\ LET highest_bid == HighestBid(Head(marker.item_ids))
       IN  IF highest_bid.exists
           THEN marker' = [marker EXCEPT !.pc = "save", !.winner = highest_bid.user]
           ELSE marker' = [marker EXCEPT !.pc = "loop", !.item_ids = Tail(@),
                                         !.item = NoItem]
    /\ Interrupt
    /\ UNCHANGED <<now, items, bids, attempts, req, resolver, editor, hist, auth>>

\* item.winner = winner; item.save() writes every column of the instance
MarkSave ==
    /\ marker.pc = "save"
    /\ LET item == Item_save([marker.item EXCEPT !.winner = marker.winner])
       IN  items' = [items EXCEPT ![Head(marker.item_ids)] = item]
    /\ marker' = [marker EXCEPT !.pc = "loop", !.item_ids = Tail(@),
                                !.item = NoItem, !.winner = NoUser]
    /\ Interrupt
    /\ UNCHANGED <<now, bids, attempts, req, resolver, editor, hist, auth>>

\* the loop is over: Response({"results": ...})
MarkReturn ==
    /\ marker.pc = "loop"
    /\ marker.item_ids = <<>>
    /\ marker' = IdleMarker
    /\ Interrupt
    /\ UNCHANGED <<now, items, bids, attempts, req, resolver, editor, hist, auth>>

\* the lists of ids the admin posts
MarkedIds == {<<1>>, <<2, 1>>}

MarkWinners ==
    \/ \E item_ids \in MarkedIds : MarkBegin(item_ids)
    \/ MarkGet
    \/ MarkHighestBid
    \/ MarkSave
    \/ MarkReturn

----------------------------------------------------------------------------
\* ItemViewSet.update with partial=True: the admin closes a listing
\* (is_active = false) or moves its end_date

\* the closing time the admin moves a listing to: after every instant of the model
Reopened == MaxTime + 1

\* instance = self.get_object()
EditGet(pk, field, is_active, end_date) ==
    /\ editor.pc = "idle"
    /\ editor.edits < MaxEdits
    /\ editor' = [editor EXCEPT !.pc = "save", !.pk = pk, !.instance = items[pk],
                                !.field = field, !.is_active = is_active,
                                !.end_date = end_date]
    /\ Interrupt
    /\ UNCHANGED <<now, items, bids, attempts, req, resolver, marker, hist, auth>>

\* serializer.update(): setattr for the validated fields
Edited(e) ==
    IF e.field = "is_active" THEN [e.instance EXCEPT !.is_active = e.is_active]
    ELSE [e.instance EXCEPT !.end_date = e.end_date]

\* perform_update: serializer.save() calls instance.save(), every column
EditSave ==
    /\ editor.pc = "save"
    /\ items' = [items EXCEPT ![editor.pk] = Item_save(Edited(editor))]
    /\ editor' = [IdleEditor EXCEPT !.edits = editor.edits + 1]
    /\ Interrupt
    /\ UNCHANGED <<now, bids, attempts, req, resolver, marker, hist, auth>>

Editor ==
    \/ \E pk \in DOMAIN items :
          \/ EditGet(pk, "is_active", FALSE, 0)
          \/ EditGet(pk, "end_date", FALSE, Reopened)
    \/ EditSave

----------------------------------------------------------------------------
\* login_view (views/auth.py) and check_login_rate_limit (views/utils.py)

\* the captcha is asked for after 3 failed attempts within 24 hours
CaptchaThreshold == 3
CaptchaPeriod == 86400

\* LoginAttempt.objects.filter(...).count()
CountLogins(rows) ==
    BagCardinality([r \in rows |-> login_attempts[r]])

\* filter(email=, ip_address=, timestamp__gte=now - period, success=False)
FailedLogins(email, ip, period) ==
    {r \in DOMAIN login_attempts : /\ r.email = email
                                   /\ r.ip_address = ip
                                   /\ r.timestamp >= now - period
                                   /\ ~r.success}

\* the limiter counting every attempt, the successful ones too
check_login_rate_limit_any_attempt(email, ip) ==
    CountLogins({r \in DOMAIN login_attempts : /\ r.email = email
                                               /\ r.ip_address = ip
                                               /\ r.timestamp >= now - LOGIN_ATTEMPT_PERIOD})
        >= MAX_LOGIN_ATTEMPTS

check_login_rate_limit(email, ip) ==
    CountLogins(FailedLogins(email, ip, LOGIN_ATTEMPT_PERIOD)) >= MAX_LOGIN_ATTEMPTS

\* the response of login_view: the rate limit, then the captcha, then the
\* account (unknown or not verified) and the password; credentials is what
\* the lookup and authenticate() would find: "ok", "bad" (unknown account or
\* wrong password) or "unverified"
LoginResponse(email, ip, captcha, credentials) ==
    LET captcha_required ==
            CountLogins(FailedLogins(email, ip, CaptchaPeriod)) >= CaptchaThreshold
    IN  IF check_login_rate_limit(email, ip) THEN "TooManyAttempts"
        ELSE IF captcha_required /\ captcha = "none" THEN "CaptchaRequired"
        ELSE IF captcha_required /\ captcha = "invalid" THEN "InvalidCaptcha"
        ELSE IF credentials = "unverified" THEN "NotVerified"
        ELSE IF credentials = "ok" THEN "LoggedIn"
        ELSE "InvalidCredentials"

NewLogins == {r \in DOMAIN login_attempts : r.timestamp > 0}

\* every response but the request for a captcha records a LoginAttempt row,
\* with success=True only for a login
LoginView(email, ip, captcha, credentials) ==
    /\ CountLogins(NewLogins) < MaxNewLogins
    /\ LET response == LoginResponse(email, ip, captcha, credentials)
       IN  /\ login' = [email |-> email, ip |-> ip, captcha |-> captcha,
                        credentials |-> credentials, response |-> response,
                        failed |-> CountLogins(FailedLogins(email, ip, LOGIN_ATTEMPT_PERIOD))]
           /\ login_attempts' =
                 IF response = "CaptchaRequired" THEN login_attempts
                 ELSE login_attempts (+)
                      SetToBag({[email |-> email, ip_address |-> ip, timestamp |-> now,
                                 success |-> response = "LoggedIn"]})
    /\ Interrupt
    /\ UNCHANGED <<now, items, bids, attempts, req, resolver, hist, admin, cleaner>>

Login ==
    \E email \in Emails, ip \in IPs, captcha \in {"none", "invalid", "valid"},
       credentials \in {"ok", "bad", "unverified"} :
        LoginView(email, ip, captcha, credentials)

----------------------------------------------------------------------------
\* Time passes: by one second, and, for the rate limiter, by half a window

Tick ==
    /\ now < MaxTime
    /\ now' = now + 1
    /\ Interrupt
    /\ UNCHANGED <<items, bids, attempts, req, resolver, hist, admin, auth>>

TickWindow ==
    /\ now < MaxTime * (BID_ATTEMPT_PERIOD \div 2)
    /\ now' = now + (BID_ATTEMPT_PERIOD \div 2)
    /\ Interrupt
    /\ UNCHANGED <<items, bids, attempts, req, resolver, hist, admin, auth>>

TickLogin ==
    /\ now < MaxTime * (LOGIN_ATTEMPT_PERIOD \div 2)
    /\ now' = now + (LOGIN_ATTEMPT_PERIOD \div 2)
    /\ Interrupt
    /\ UNCHANGED <<items, bids, attempts, req, resolver, hist, admin, auth>>

----------------------------------------------------------------------------
\* manage.py cleanup_database --days N [--dry-run]

\* cutoff_date = timezone.now() - timedelta(days=days)
cutoff_date(days) == now - days * SecondsPerDay

\* Model.objects.filter(timestamp__lt=cutoff_date).delete(), skipped on a dry run
Cleaned(rows, days, dry_run) ==
    IF dry_run THEN rows
    ELSE [r \in {x \in DOMAIN rows : x.timestamp >= cutoff_date(days)} |-> rows[r]]

CleanupDatabase(days, dry_run) ==
    /\ cleaner.runs < MaxCleanups
    /\ cleaner' = [days |-> days, dry_run |-> dry_run, runs |-> cleaner.runs + 1]
    /\ login_attempts' = Cleaned(login_attempts, days, dry_run)
    /\ attempts' = Cleaned(attempts, days, dry_run)
    /\ Interrupt
    /\ UNCHANGED <<now, items, bids, req, resolver, hist, admin, login>>

\* --days is any integer: the default, one day, or none at all
Days == {0, 1, DefaultDays}

Cleanup ==
    \E days \in Days, dry_run \in BOOLEAN : CleanupDatabase(days, dry_run)

----------------------------------------------------------------------------
\* Bid placement: two bidders on one listing
Next ==
    \/ Tick
    \/ \E p \in Workers : PlaceBid(p)

Spec == Init /\ [][Next]_vars

\* Winner resolution: one bidder on listing 1, a listing without bids and
\* the command
NextResolve ==
    \/ Tick
    \/ PlaceBid(1)
    \/ Resolver

SpecResolve == InitResolve /\ [][NextResolve]_vars

\* Winner resolution next to mark_winners: the bidders bid on both listings
\* while the command, which can fail on a save, and mark_winners run
WinnerRequests ==
    {[user |-> "u1", ip |-> "ip1", raw |-> [ok |-> TRUE, val |-> 3], pk |-> 1],
     [user |-> "u2", ip |-> "ip1", raw |-> [ok |-> TRUE, val |-> 6], pk |-> 1],
     [user |-> "u1", ip |-> "ip1", raw |-> [ok |-> TRUE, val |-> 6], pk |-> 2]}

NextWinners ==
    \/ Tick
    \/ \E r \in WinnerRequests : PlaceBidBegin(1, r.user, r.ip, r.raw, r.pk)
    \/ PlaceBidStep(1)
    \/ Resolver
    \/ ResolverSaveFails
    \/ MarkWinners

SpecWinners == InitResolve /\ [][NextWinners]_vars

\* The admin's updates next to winner resolution: listing 1 with or without
\* the bid of 1.50 that u1 placed at second 0
PlacedBid == [item |-> 1, user |-> "u1", amount |-> 3]

InitEdit ==
    /\ now = 1
    /\ \E placed \in BOOLEAN :
         /\ items = [pk \in {1} |->
                        IF placed THEN [Listing(TRUE) EXCEPT !.current_price = PlacedBid.amount]
                        ELSE Listing(TRUE)]
         /\ bids = IF placed THEN <<PlacedBid>> ELSE <<>>
         /\ attempts = IF placed
                       THEN EarlierAttempts (+)
                            SetToBag({[user |-> PlacedBid.user, ip_address |-> "ip1",
                                       timestamp |-> 0, success |-> TRUE]})
                       ELSE EarlierAttempts
         /\ hist = IF placed
                   THEN <<[read_price |-> Listing(TRUE).current_price,
                           price_before |-> Listing(TRUE).current_price, worker |-> 1]>>
                   ELSE <<>>
    /\ req = [p \in Workers |-> IdleReq]
    /\ resolver = [pc |-> "idle", ended_auctions |-> <<>>, winner |-> NoUser]
    /\ marker = IdleMarker
    /\ editor = IdleEditor
    /\ login_attempts = EarlierLogins
    /\ login = NoLogin
    /\ cleaner = NoCleanup
    /\ runs = [count |-> 0, clean |-> TRUE]

NextEdit ==
    \/ Tick
    \/ Resolver
    \/ MarkWinners
    \/ Editor

SpecEdit == InitEdit /\ [][NextEdit]_vars

\* Bid placement while the admin updates the listing
NextClose ==
    \/ Tick
    \/ PlaceBid(1)
    \/ Editor

SpecClose == Init /\ [][NextClose]_vars

\* Logins of one account from two addresses
NextLogin ==
    \/ TickLogin
    \/ Login

SpecLogin == Init /\ [][NextLogin]_vars

\* Bid placement when the transaction can fail
NextCommit ==
    \/ Tick
    \/ \E p \in Workers : PlaceBid(p) \/ PlaceBidAbort(p)

SpecCommit == Init /\ [][NextCommit]_vars

\* The rate limiter: the bidder u1 sends every request, from either address
RateRequests ==
    {[user |-> "u1", ip |-> ip, raw |-> [ok |-> TRUE, val |-> v], pk |-> 1] :
        ip \in IPs, v \in {0, 3}}

NextRate ==
    \/ TickWindow
    \/ \E p \in Workers :
          \/ \E r \in RateRequests : PlaceBidBegin(p, r.user, r.ip, r.raw, r.pk)
          \/ PlaceBidStep(p)

SpecRate == Init /\ [][NextRate]_vars

\* Both limiters: u1 bids from ip2 an amount below the minimum increment,
\* a@x logs in from ip1 with the captcha solved
LimitLogin ==
    \E credentials \in {"ok", "bad"} : LoginView("a@x", "ip1", "valid", credentials)

NextLimits ==
    \/ TickLogin
    \/ PlaceBidBegin(1, "u1", "ip2", [ok |-> TRUE, val |-> 3], 1)
    \/ PlaceBidStep(1)
    \/ LimitLogin

SpecLimits == Init /\ [][NextLimits]_vars

\* Both limiters and the cleanup command, with or without rows of last month
InitCleanup ==
    /\ now = 1
    /\ items = [pk \in {1} |-> Listing(TRUE)]
    /\ bids = <<>>
    /\ \E old \in BOOLEAN :
          /\ attempts = IF old THEN EarlierAttempts (+) OldAttempts ELSE EarlierAttempts
          /\ login_attempts = IF old THEN EarlierLogins (+) OldLogins ELSE EarlierLogins
    /\ req = [p \in Workers |-> IdleReq]
    /\ resolver = [pc |-> "idle", ended_auctions |-> <<>>, winner |-> NoUser]
    /\ marker = IdleMarker
    /\ editor = IdleEditor
    /\ login = NoLogin
    /\ cleaner = NoCleanup
    /\ hist = <<>>
    /\ runs = [count |-> 0, clean |-> TRUE]

NextCleanup ==
    \/ TickLogin
    \/ PlaceBidBegin(1, "u1", "ip2", [ok |-> TRUE, val |-> 3], 1)
    \/ PlaceBidStep(1)
    \/ LoginView("a@x", "ip1", "valid", "bad")
    \/ Cleanup

SpecCleanup == InitCleanup /\ [][NextCleanup]_vars

----------------------------------------------------------------------------
\* Properties

Quiescent == \A p \in Workers : req[p].pc \in {"idle", "done"}

\* a request that has loaded the listing and recorded its attempt
Loaded(p) == req[p].bid_attempt.exists

\* a request whose price rules were evaluated
Priced(p) ==
    /\ Loaded(p)
    /\ req[p].pc \in {"create", "commit", "done"}
    /\ req[p].response # "NotAvailable"

\* C1: once every place_bid request has completed, the listing's
\* current_price is the greatest amount among its Bid rows.
C1_FinalPriceIsHighestBid ==
    Quiescent =>
        \A pk \in DOMAIN items :
            BidsOf(pk) # {} => items[pk].current_price = HighestBid(pk).amount

\* C2: no two committed bids on one listing were validated against the same
\* current_price: of two requests that read the same price at most one commits.
C2_SameReadCommitsOnce ==
    \A i, j \in DOMAIN hist :
        (i < j /\ bids[i].item = bids[j].item)
            => hist[i].read_price # hist[j].read_price

\* C3: the amounts of a listing's Bid rows strictly increase in commit order.
C3_AmountsStrictlyIncrease ==
    \A i, j \in DOMAIN bids :
        (i < j /\ bids[i].item = bids[j].item) => bids[i].amount < bids[j].amount

\* C4: no step lowers a listing's current_price, and the price a step leaves
\* is never below the listing's starting_price.
C4_PriceNeverDecreases ==
    [][\A pk \in DOMAIN items :
            /\ items'[pk].current_price >= items[pk].current_price
            /\ items'[pk].current_price >= items'[pk].starting_price]_vars

C6_JumpCap ==
    \A p \in Workers :
        Priced(p) =>
            LET r == req[p]
                over == /\ r.previous_highest_bid.exists
                        /\ r.amount > JumpFactor * r.previous_highest_bid.amount
            IN  /\ (over /\ r.amount >= r.item.current_price + MinIncrement)
                        => (r.pc = "done" /\ r.response = "ExceedsMaximumJump")
                /\ ~over => r.response # "ExceedsMaximumJump"
                /\ (r.previous_highest_bid.exists
                        /\ r.amount = JumpFactor * r.previous_highest_bid.amount
                        /\ r.amount >= r.item.current_price + MinIncrement)
                        => r.pc \in {"create", "commit"} \/ r.response \in {"Created", "Error"}
                /\ r.response = "Error"
                        => \E i \in BidsOf(r.pk) : r.amount > JumpFactor * bids[i].amount

C6_Witness ==
    \E p \in Workers :
        /\ req[p].pc = "done"
        /\ req[p].previous_highest_bid.exists
        /\ req[p].amount = JumpFactor * req[p].previous_highest_bid.amount + 1
        /\ req[p].response = "ExceedsMaximumJump"

\* C7: a request of a bidder who has MAX_BID_ATTEMPTS attempts or more in
\* the trailing BID_ATTEMPT_PERIOD seconds is answered TooManyAttempts, and a
\* request answered so has written no attempt row.
C7_TenAttemptsDeny ==
    \A p \in Workers :
        /\ (req[p].pc # "idle" /\ req[p].user_attempts >= MAX_BID_ATTEMPTS)
                => req[p].response = "TooManyAttempts"
        /\ req[p].response = "TooManyAttempts" => ~Loaded(p)

\* C8: a completed request that the rate limiter did not deny has written
\* its BidAttempt row.
C8_AdmittedRequestIsLogged ==
    \A p \in Workers :
        (req[p].pc = "done" /\ req[p].response # "TooManyAttempts") => Loaded(p)

\* C9: the rate limiter gives a bidder the same answer from every address.
C9_LimitKeyedByBidder ==
    \A user \in Users : \A ip, other \in IPs :
        check_bid_rate_limit(user, ip) = check_bid_rate_limit(user, other)

\* C10: after a run of the resolver that nothing interrupted no ended
\* listing with bids is left without a winner, and a run that follows it
\* directly saves no listing and leaves every row of the store as it was.
C10_SecondRunIsNoOp ==
    /\ [](( runs.count >= 1 /\ resolver.pc = "idle")
            => \A pk \in EndedAuctions : BidsOf(pk) = {})
    /\ [][(runs.count >= 1 /\ resolver' # resolver)
            => (store' = store /\ resolver'.pc # "save")]_vars

C10_Witness ==
    /\ runs.count = 2
    /\ \E pk \in DOMAIN items : items[pk].winner # NoUser /\ BidsOf(pk) # {}

\* C17: a request made when the closing time of the listing it loaded has
\* been reached (now >= end_date, the instant end_date itself included) is
\* answered "not available" and never proceeds to create a Bid row.
C17_ClosedAtOrAfterEnd ==
    \A p \in Workers :
        (Loaded(p) /\ req[p].pc \in {"create", "commit", "done"}
            /\ req[p].bid_attempt.timestamp >= req[p].item.end_date)
        => (req[p].pc = "done" /\ req[p].response = "NotAvailable")

\* C18: every committed bid is at least the minimum increment above the
\* current_price the listing's row held immediately before the commit.
C18_IncrementAtCommit ==
    \A i \in DOMAIN hist :
        bids[i].amount >= hist[i].price_before + MinIncrement

\* history: the attempt rows that were flipped to success
Successes == {r \in DOMAIN attempts : r.success}

\* C19: a step that adds a Bid row is the commit of one request and also
\* sets the listing's current_price to the bid's amount and flips that
\* request's attempt to success; a step that adds no Bid row changes no
\* current_price and flips no attempt; and a request that ends in an error
\* changes no row of the store in the step that ends it.
C19_CommitAllOrNothing ==
    [][/\ bids' # bids =>
            \E p \in Workers :
                LET r == req[p]
                IN  /\ r.pc = "commit" /\ req'[p].response = "Created"
                    /\ bids' = Append(bids, [item |-> r.pk, user |-> r.user,
                                             amount |-> r.amount])
                    /\ items'[r.pk].current_price = r.amount
                    /\ attempts' = (attempts (-) SetToBag({AttemptRow(r, FALSE)}))
                                      (+) SetToBag({AttemptRow(r, TRUE)})
       /\ bids' = bids =>
            /\ \A pk \in DOMAIN items :
                    items'[pk].current_price = items[pk].current_price
            /\ \A r \in Successes : CopiesIn(r, attempts') = CopiesIn(r, attempts)
            /\ \A r \in DOMAIN attempts' : r.success => r \in Successes
       /\ \A p \in Workers :
            (req[p].pc # "done" /\ req'[p].pc = "done" /\ req'[p].response = "Error")
                => store' = store]_vars

C19_Witness ==
    \E p \in Workers :
        /\ req[p].pc = "done" /\ req[p].response = "Error"
        /\ \A i \in BidsOf(req[p].pk) : req[p].amount <= JumpFactor * bids[i].amount
        /\ \E q \in Workers : req[q].response = "Created"

\* C20: a request whose outbid notification failed is answered with the
\* created bid, and the step that fails to notify commits the Bid row and
\* the price like any other commit.
C20_NotificationFailureKeepsBid ==
    /\ [](\A p \in Workers :
            req[p].notification = "failed" =>
                /\ req[p].response = "Created"
                /\ \E i \in BidsOf(req[p].pk) :
                        bids[i].user = req[p].user /\ bids[i].amount = req[p].amount)
    /\ [][\A p \in Workers :
            (req[p].pc = "commit" /\ req'[p].notification = "failed") =>
                /\ Len(bids') = Len(bids) + 1
                /\ items'[req[p].pk].current_price = req[p].amount]_vars

C20_Witness ==
    \E p \in Workers :
        /\ req[p].pc = "done" /\ req[p].notification = "failed"
        /\ req[p].response = "Created"
        /\ items[req[p].pk].current_price = req[p].amount

\* the winner column as the command and mark_winners write it
WinnerWrite(pk) ==
    \/ /\ resolver.pc = "save" /\ resolver' # resolver
       /\ Head(resolver.ended_auctions).pk = pk
    \/ /\ marker.pc = "save" /\ marker' # marker
       /\ Head(marker.item_ids) = pk

\* C11: the command and mark_winners store a winner only on a listing whose
\* row has no winner at the moment of the write, so a listing's winner is
\* written at most once.
C11_WinnerWrittenOnce ==
    [][\A pk \in DOMAIN items :
            (WinnerWrite(pk) /\ items'[pk].winner # NoUser)
                => items[pk].winner = NoUser]_vars

\* C12: a listing that has a winner has an end_date that is not in the future.
C12_WinnerOnlyAfterEnd ==
    \A pk \in DOMAIN items :
        items[pk].winner # NoUser => items[pk].end_date <= now

C12_Witness ==
    \E pk \in DOMAIN items :
        /\ items[pk].winner # NoUser
        /\ items[pk].end_date < now
        /\ editor.edits > 0

\* C13: no step changes or clears a winner that is set.
C13_WinnerIsFinal ==
    [][\A pk \in DOMAIN items :
            items[pk].winner # NoUser => items'[pk].winner = items[pk].winner]_vars

\* C14: the winner the command stores on a listing is the bidder of a bid
\* with the greatest amount among the listing's Bid rows.
C14_WinnerIsHighestBidder ==
    [][\A pk \in DOMAIN items :
            (resolver.pc = "save" /\ resolver' # resolver
                /\ Head(resolver.ended_auctions).pk = pk
                /\ items'[pk].winner # NoUser)
            => \E i \in BidsOf(pk) :
                    /\ bids[i].user = items'[pk].winner
                    /\ \A j \in BidsOf(pk) : bids[j].amount <= bids[i].amount]_vars

\* C15: a run of the command ends only when every listing of its scan has
\* been processed: when a save fails, no listing with bids that is still
\* waiting in the scan is left without a winner.
C15_FailureDoesNotAbortBatch ==
    [][(resolver.pc # "idle" /\ resolver'.pc = "idle") =>
            \A k \in 2..Len(resolver.ended_auctions) :
                LET pk == resolver.ended_auctions[k].pk
                IN  BidsOf(pk) = {} \/ items'[pk].winner # NoUser]_vars

\* C16: a Bid row is only ever inserted on a listing whose row is active at
\* the moment of the commit.
C16_NoBidOnInactive ==
    [][bids' # bids => items[bids'[Len(bids')].item].is_active]_vars

\* the responses of a request that validation rejected
Rejections ==
    {"InvalidAmount", "NotFound", "NotAvailable", "BelowCurrentPrice",
     "BelowMinimumIncrement", "ExceedsMaximumJump", "Error"}

\* C21: the step in which the rate limiter denies a request changes no row
\* of BidAttempt, Bid or Item, and the denied request holds no attempt row.
C21_DenialTouchesNothing ==
    /\ [](\A p \in Workers : req[p].response = "TooManyAttempts" => ~Loaded(p))
    /\ [][\A p \in Workers :
            (req'[p] # req[p] /\ req'[p].response = "TooManyAttempts")
                => store' = store]_vars

C21_Witness ==
    \E p \in Workers :
        /\ req[p].pc = "done" /\ req[p].response = "TooManyAttempts"
        /\ CountAttempts(AttemptsOfKey(req[p].user, req[p].ip)) = MAX_BID_ATTEMPTS

\* C22: the step that ends a request with a rejection changes no Bid row and
\* no field of any listing; and a step that does change one is the commit of
\* a request that passed every rule on the listing and the highest bid it
\* had loaded.
C22_RejectionTouchesNoBidOrListing ==
    [][/\ \A p \in Workers :
            (req[p].pc # "done" /\ req'[p].pc = "done"
                /\ req'[p].response \in Rejections)
                => (bids' = bids /\ items' = items)
       /\ (bids' # bids \/ items' # items) =>
            \E p \in Workers :
                LET r == req[p]
                IN  /\ r.pc = "commit" /\ req'[p].response = "Created"
                    /\ r.amount > 0 /\ r.item.is_active
                    /\ r.amount >= r.item.current_price + MinIncrement
                    /\ r.previous_highest_bid.exists
                            => r.amount <= JumpFactor * r.previous_highest_bid.amount]_vars

C22_Witness ==
    /\ bids # <<>>
    /\ \E p \in Workers :
        /\ req[p].pc = "done" /\ req[p].response = "BelowMinimumIncrement"
        /\ req[p].previous_highest_bid.exists

\* C23: a bid with an amount that is not positive on a listing that is
\* inactive or has ended is answered with the listing's reason, which comes
\* first in the order of the reasons.
C23_ListingReasonFirst ==
    \A p \in Workers :
        (/\ req[p].pc = "done" /\ req[p].response # "TooManyAttempts"
         /\ req[p].raw.ok /\ req[p].raw.val <= 0
         /\ req[p].pk \in DOMAIN items
         /\ NotAvailable(items[req[p].pk]))
        => req[p].response = "NotAvailable"

\* C25: the commit of a bid emits an outbid notification exactly when the
\* listing had a highest bid immediately before the commit whose bidder is
\* another user with notifications enabled, and emits it to that bidder.
C25_NotifiesPreviousHighestBidder ==
    [][\A p \in Workers :
            (req[p].pc = "commit" /\ req'[p].response = "Created") =>
                LET before == HighestBid(req[p].pk)
                    due == /\ before.exists
                           /\ before.user # req[p].user
                           /\ outbid_notifications_enabled[before.user]
                IN  /\ (req'[p].notification # "none") = due
                    /\ due => req[p].previous_highest_bid.user = before.user]_vars

\* C27: no Bid row is committed on a listing that has a winner.
C27_NoBidAfterWinner ==
    [][bids' # bids => items[bids'[Len(bids')].item].winner = NoUser]_vars

\* C28: among the BidAttempt rows of one bidder and address, at most
\* MAX_BID_ATTEMPTS are dated within BID_ATTEMPT_PERIOD seconds from any of them.
C28_AtMostTenRowsPerWindow ==
    \A first \in DOMAIN attempts :
        CountAttempts({r \in DOMAIN attempts :
                            /\ r.user = first.user /\ r.ip_address = first.ip_address
                            /\ r.timestamp >= first.timestamp
                            /\ r.timestamp < first.timestamp + BID_ATTEMPT_PERIOD})
            <= MAX_BID_ATTEMPTS

\* C24: a step of the command changes no field of any listing but winner,
\* and changes winner only on a listing whose row has end_date < now, no
\* winner, is_active set and at least one bid.
C24_ResolverWritesWinnerOnly ==
    [][resolver' # resolver =>
            \A pk \in DOMAIN items :
                /\ items'[pk] = [items[pk] EXCEPT !.winner = items'[pk].winner]
                /\ items'[pk].winner # items[pk].winner
                        => /\ items[pk].end_date < now
                           /\ items[pk].winner = NoUser
                           /\ items[pk].is_active
                           /\ BidsOf(pk) # {}]_vars

\* a step of login_view: it answers a request, and all but the request for a
\* captcha record a row
LoginStep ==
    /\ cleaner' = cleaner
    /\ login_attempts' # login_attempts \/ login' # login

\* C26: a login for an (email, address) pair with 5 or more failed attempts in
\* the trailing 15 minutes is answered 429 whatever the credentials are, and
\* only then; the count is of the rows with success=False, so a login that
\* succeeds adds nothing to it and removes nothing from it.
C26_FailedLoginsLockOut ==
    [][LoginStep =>
            /\ login'.response = "TooManyAttempts"
                  <=> CountLogins(FailedLogins(login'.email, login'.ip,
                                               LOGIN_ATTEMPT_PERIOD))
                          >= MAX_LOGIN_ATTEMPTS
            /\ login'.response = "LoggedIn"
                  => \A email \in Emails, ip \in IPs :
                        CountLogins(FailedLogins(email, ip, LOGIN_ATTEMPT_PERIOD))'
                            = CountLogins(FailedLogins(email, ip, LOGIN_ATTEMPT_PERIOD))]_vars

\* a correct password is turned away while a login that succeeded is on record
\* inside the window
C26_Witness ==
    /\ login.response = "TooManyAttempts"
    /\ login.credentials = "ok"
    /\ \E r \in DOMAIN login_attempts :
          /\ r.success
          /\ r.email = login.email /\ r.ip_address = login.ip
          /\ r.timestamp >= now - LOGIN_ATTEMPT_PERIOD

\* C29: a lockout ends once the actor stays idle. A bid is answered 429 only
\* if the bidder has a BidAttempt row from that address dated within the
\* trailing 60 s, and a login only if the pair (email, address) has a failed
\* LoginAttempt row dated within the trailing 15 minutes (the windows are
\* closed: timestamp >= now - period), whatever rows older than that exist,
\* the rows of denied logins among them.
C29_IdleActorIsAdmitted ==
    [][/\ \A p \in Workers :
            (req'[p] # req[p] /\ req'[p].response = "TooManyAttempts")
                => \E r \in DOMAIN attempts :
                        /\ r.user = req'[p].user /\ r.ip_address = req'[p].ip
                        /\ r.timestamp >= now - BID_ATTEMPT_PERIOD
       /\ (LoginStep /\ login'.response = "TooManyAttempts")
                => \E r \in DOMAIN login_attempts :
                        /\ r.email = login'.email /\ r.ip_address = login'.ip
                        /\ ~r.success
                        /\ r.timestamp >= now - LOGIN_ATTEMPT_PERIOD]_vars

\* the bidder and the account were both locked out (the rows on record reach
\* the thresholds, a denied login among them), stayed idle for a window, and
\* their last requests were let through
C29_Witness ==
    /\ \E p \in Workers :
          /\ req[p].pc = "done" /\ Loaded(p)
          /\ CountAttempts({r \in DOMAIN attempts :
                                /\ r.user = req[p].user /\ r.ip_address = req[p].ip
                                /\ r.timestamp < now - BID_ATTEMPT_PERIOD})
                  >= MAX_BID_ATTEMPTS
    /\ login.response = "LoggedIn"
    /\ CountLogins({r \in DOMAIN login_attempts :
                        /\ r.email = login.email /\ r.ip_address = login.ip
                        /\ ~r.success
                        /\ r.timestamp > 0
                        /\ r.timestamp < now - LOGIN_ATTEMPT_PERIOD}) >= 2
    /\ CountLogins({r \in DOMAIN login_attempts :
                        /\ r.email = login.email /\ r.ip_address = login.ip
                        /\ ~r.success
                        /\ r.timestamp < now - LOGIN_ATTEMPT_PERIOD})
            > MAX_LOGIN_ATTEMPTS

\* C30: a run of cleanup_database leaves the answer of both limiters as it
\* was for every actor, for every value of --days, and a dry run deletes no row.
C30_CleanupKeepsLimiterOutcome ==
    [][cleaner' # cleaner =>
            /\ \A user \in Users, ip \in IPs :
                    check_bid_rate_limit(user, ip)' = check_bid_rate_limit(user, ip)
            /\ \A email \in Emails, ip \in IPs :
                    check_login_rate_limit(email, ip)' = check_login_rate_limit(email, ip)
            /\ cleaner'.dry_run
                    => login_attempts' = login_attempts /\ attempts' = attempts]_vars

====
